---- MODULE Spec2Model ----
(***************************************************************************)
(* Model of the repository's executable logic, in three parts:             *)
(*                                                                         *)
(*  - the footnote caption renderer that .eleventy.js installs on the      *)
(*    shared markdown-it instance (markdownLibrary).  It is called once    *)
(*    per footnote reference token of a document; the token's meta (id,    *)
(*    subId) is assigned by the markdown-it-footnote plugin and is an      *)
(*    input here.  Specification: Spec.                                    *)
(*  - the Kindle clippings program listed in the post                      *)
(*    kindle-highlights-go.md.  Specification: SpecKindle.                 *)
(*  - the Strava downloader listed in the Strava post.                     *)
(*    Specification: SpecStrava.                                           *)
(*                                                                         *)
(* Strings are sequences of one-character strings, so that conversions and *)
(* string functions are modelled character by character.                   *)
(***************************************************************************)
EXTENDS Integers, Sequences, FiniteSets, TLC

\* Bounds of the model.
MaxTokens == 2
MaxId == 10
MaxSubId == 2
MaxLines == 7
MaxRuns == 2
MaxTs == 2

VARIABLES
  tokens,    \* the footnote reference tokens of the document being rendered
  idx,       \* position of the next token the renderer is called on (1-based)
  captions   \* the captions rendered so far, one per token, in token order

\* The Kindle clippings program of the post kindle-highlights-go.md.
VARIABLES
  kfile,       \* lines of "My Clippings.txt" (revealed as the first run scans them)
  pos,         \* 1-based index of the next line scanner.Scan() delivers
  counter,     \* var counter int
  hl,          \* var hl HighlightData
  highlights,  \* var highlights []HighlightData
  kpc,         \* position of main: "off", "scan", "save", "done", "panic"
  saveIdx,     \* index of the range loop over highlights
  run,         \* number of the current run of the program
  fs           \* the highlights folder: [root, dirs (author folders), files (book files)]

\* The Strava downloader of the post on pulling running data from Strava.
VARIABLES
  remote,              \* the athlete's activities at Strava
  optAll,              \* parameter all
  optParquet,          \* parameter parquet
  dest,                \* the destination: [exists, streamsDir, activities, streams]
  spc,                 \* position of main: "off", "check", "list", "query", "sync", "stream", "done", "error", "killed"
  srun,                \* number of the current run of the downloader
  sprev,               \* how the previous run ended: "none", "done", "error", "killed"
  local_activities,    \* timestamps of the <timestamp>.json files listed
  local_streams,       \* timestamps of the files listed in streams/
  youngest_activity,   \* the `after` argument of the activities query
  activities_to_sync,  \* the remote runs, in the order they are synced
  syncIdx,             \* index of the sync loop
  fetched,             \* ids passed to get_activity_by_id
  streamed             \* ids passed to get_activity_streams

captionVars == <<tokens, idx, captions>>
stravaVars ==
  <<remote, optAll, optParquet, dest, spc, srun, sprev, local_activities, local_streams,
    youngest_activity, activities_to_sync, syncIdx, fetched, streamed>>
kindleVars == <<kfile, pos, counter, hl, highlights, kpc, saveIdx, run, fs>>
vars ==
  <<tokens, idx, captions, kfile, pos, counter, hl, highlights, kpc, saveIdx, run, fs,
    remote, optAll, optParquet, dest, spc, srun, sprev, local_activities, local_streams,
    youngest_activity, activities_to_sync, syncIdx, fetched, streamed>>

\* meta of a footnote reference token: tokens[idx].meta.id, tokens[idx].meta.subId
Meta == [id : 0..MaxId, subId : 0..MaxSubId]

RECURSIVE SeqsUpTo(_, _)
SeqsUpTo(S, n) ==
  IF n = 0 THEN {<<>>}
  ELSE LET shorter == SeqsUpTo(S, n - 1)
       IN  shorter \cup {Append(s, x) : s \in {t \in shorter : Len(t) = n - 1}, x \in S}

DigitChars == <<"0", "1", "2", "3", "4", "5", "6", "7", "8", "9">>

\* Number.prototype.toString() of a non-negative integer: its decimal digits,
\* most significant first, no leading zero.
RECURSIVE NumberToString(_)
NumberToString(n) ==
  IF n < 10 THEN <<DigitChars[n + 1]>>
  ELSE Append(NumberToString(n \div 10), DigitChars[(n % 10) + 1])

\* A plausible slip of the renderer: the caption uses the zero-based id.
footnote_caption_zero_based(toks, i) ==
  LET n == NumberToString(toks[i].id)
  IN  IF toks[i].subId > 0
      THEN n \o <<":">> \o NumberToString(toks[i].subId)
      ELSE n

\* markdownLibrary.renderer.rules.footnote_caption = (tokens, idx) => { ... }
footnote_caption(toks, i) ==
  LET n == NumberToString(toks[i].id + 1)
  IN  IF toks[i].subId > 0
      THEN n \o <<":">> \o NumberToString(toks[i].subId)
      ELSE n

\* HighlightData{}: every field the empty string.
EmptyHighlight ==
  [author |-> <<>>, book |-> <<>>, timestamp |-> <<>>, location |-> <<>>, text |-> <<>>]

\* An empty destination: no highlights folder yet.
EmptyFs == [root |-> FALSE, dirs |-> {}, files |-> {}]

\* The Kindle program is not running.
KindleOff ==
  /\ kfile = <<>>
  /\ pos = 1
  /\ counter = 0
  /\ hl = EmptyHighlight
  /\ highlights = <<>>
  /\ kpc = "off"
  /\ saveIdx = 1
  /\ run = 0
  /\ fs = EmptyFs

\* The Strava downloader is not running.
StravaOff ==
  /\ remote = {}
  /\ optAll = FALSE
  /\ optParquet = FALSE
  /\ dest = [exists |-> FALSE, streamsDir |-> FALSE, activities |-> {}, streams |-> {}]
  /\ spc = "off"
  /\ srun = 0
  /\ sprev = "none"
  /\ local_activities = {}
  /\ local_streams = {}
  /\ youngest_activity = 0
  /\ activities_to_sync = <<>>
  /\ syncIdx = 1
  /\ fetched = {}
  /\ streamed = {}

\* No document is being rendered.
CaptionOff ==
  /\ tokens = <<>>
  /\ idx = 1
  /\ captions = <<>>

Init ==
  /\ tokens \in (SeqsUpTo(Meta, MaxTokens) \ {<<>>})
  /\ idx = 1
  /\ captions = <<>>
  /\ KindleOff
  /\ StravaOff

\* The renderer walks the token stream and calls the footnote_caption rule on
\* each footnote reference token.
RenderFootnoteRef ==
  /\ idx <= Len(tokens)
  /\ captions' = Append(captions, footnote_caption(tokens, idx))
  /\ idx' = idx + 1
  /\ UNCHANGED tokens
  /\ UNCHANGED kindleVars
  /\ UNCHANGED stravaVars

Next == RenderFootnoteRef

Spec == Init /\ [][Next]_vars

----
\* Reading a caption back, independently of NumberToString.

DigitValue(c) == CHOOSE d \in 0..9 : DigitChars[d + 1] = c

IsDigit(c) == \E d \in 0..9 : DigitChars[d + 1] = c

RECURSIVE DecimalValue(_)
DecimalValue(s) ==
  IF Len(s) = 0 THEN 0
  ELSE 10 * DecimalValue(SubSeq(s, 1, Len(s) - 1)) + DigitValue(s[Len(s)])

\* s is the canonical decimal string of n.
IsDecimalOf(s, n) ==
  /\ Len(s) >= 1
  /\ \A k \in 1..Len(s) : IsDigit(s[k])
  /\ (Len(s) > 1 => s[1] # "0")
  /\ DecimalValue(s) = n

\* C1: every rendered caption of a token with zero-based id i and sub-id s is
\* the decimal string of i+1 when s = 0, and "<i+1>:<s>" when s > 0; the
\* first footnote's first and second reference are captioned "1" and "1:1".
C1_Caption ==
  \A k \in 1..Len(captions) :
    LET i == tokens[k].id
        s == tokens[k].subId
        c == captions[k]
    IN  /\ (s = 0 => IsDecimalOf(c, i + 1))
        /\ (s > 0 =>
              \E p \in 1..Len(c) :
                /\ c[p] = ":"
                /\ IsDecimalOf(SubSeq(c, 1, p - 1), i + 1)
                /\ IsDecimalOf(SubSeq(c, p + 1, Len(c)), s))
        /\ (i = 0 /\ s = 0 => c = <<"1">>)
        /\ (i = 0 /\ s = 1 => c = <<"1", ":", "1">>)

\* The first footnote referenced twice: both references have been rendered.
C1_Witness ==
  /\ Len(tokens) = 2
  /\ tokens[1] = [id |-> 0, subId |-> 0]
  /\ tokens[2] = [id |-> 0, subId |-> 1]
  /\ captions = << <<"1">>, <<"1", ":", "1">> >>

----
(***************************************************************************)
(* The Kindle clippings program ("All the code" of the post                *)
(* kindle-highlights-go.md).  The struct's fields are written lower-case   *)
(* in the type and in main and upper-case in saveHighlight; they are the   *)
(* same fields here.  Strings are sequences of one-byte characters.        *)
(***************************************************************************)

\* Go's strings package, on sequences of characters.

MinOf(S) == CHOOSE x \in S : \A y \in S : x <= y

\* strings.Index(s, sub), 1-based; 0 when sub does not occur.
IndexOf(s, sub) ==
  LET at == {i \in 1..(Len(s) - Len(sub) + 1) : SubSeq(s, i, i + Len(sub) - 1) = sub}
  IN  IF at = {} THEN 0 ELSE MinOf(at)

\* strings.Contains(s, sub)
Contains(s, sub) == IndexOf(s, sub) # 0

\* strings.Split(s, sep) for a non-empty sep.
RECURSIVE Split(_, _)
Split(s, sep) ==
  LET i == IndexOf(s, sep)
  IN  IF i = 0 THEN <<s>>
      ELSE <<SubSeq(s, 1, i - 1)>> \o Split(SubSeq(s, i + Len(sep), Len(s)), sep)

RECURSIVE TrimLeft(_, _)
TrimLeft(s, cutset) ==
  IF Len(s) > 0 /\ s[1] \in cutset THEN TrimLeft(Tail(s), cutset) ELSE s

RECURSIVE TrimRight(_, _)
TrimRight(s, cutset) ==
  IF Len(s) > 0 /\ s[Len(s)] \in cutset
  THEN TrimRight(SubSeq(s, 1, Len(s) - 1), cutset) ELSE s

\* strings.Trim(s, cutset)
Trim(s, cutset) == TrimRight(TrimLeft(s, cutset), cutset)

\* strings.TrimSpace(s)
TrimSpace(s) == Trim(s, {" ", "\t", "\n", "\r"})

LowerLetters ==
  <<"a", "b", "c", "d", "e", "f", "g", "h", "i", "j", "k", "l", "m",
    "n", "o", "p", "q", "r", "s", "t", "u", "v", "w", "x", "y", "z">>

UpperLetters ==
  <<"A", "B", "C", "D", "E", "F", "G", "H", "I", "J", "K", "L", "M",
    "N", "O", "P", "Q", "R", "S", "T", "U", "V", "W", "X", "Y", "Z">>

DigitSet == {DigitChars[d] : d \in 1..10}

ToUpper(c) ==
  IF \E k \in 1..26 : LowerLetters[k] = c
  THEN UpperLetters[CHOOSE k \in 1..26 : LowerLetters[k] = c]
  ELSE c

\* A character that is part of a word for strings.Title: a letter, a digit
\* or an underscore.
IsWordChar(c) ==
  \/ \E k \in 1..26 : LowerLetters[k] = c \/ UpperLetters[k] = c
  \/ c \in DigitSet
  \/ c = "_"

\* strings.Title(s): the first letter of every word in upper case.
Title(s) ==
  [i \in 1..Len(s) |-> IF i = 1 \/ ~IsWordChar(s[i - 1]) THEN ToUpper(s[i]) ELSE s[i]]

\* Number of digits of s starting at position i.
RECURSIVE DigitRun(_, _)
DigitRun(s, i) ==
  IF i <= Len(s) /\ s[i] \in DigitSet THEN 1 + DigitRun(s, i + 1) ELSE 0

LocationLiteral == <<"l", "o", "c", "a", "t", "i", "o", "n", " ">>

\* Length of the match of `location [\d]+-[\d]+` that starts at position i of
\* s, 0 when there is none.
LocationMatchAt(s, i) ==
  LET a == i + Len(LocationLiteral)
      n1 == DigitRun(s, a)
      dash == a + n1
      n2 == DigitRun(s, dash + 1)
  IN  IF /\ a - 1 <= Len(s)
         /\ SubSeq(s, i, a - 1) = LocationLiteral
         /\ n1 >= 1
         /\ dash <= Len(s)
         /\ s[dash] = "-"
         /\ n2 >= 1
      THEN Len(LocationLiteral) + n1 + 1 + n2
      ELSE 0

\* re.FindString(s) for re = `location [\d]+-[\d]+`: the leftmost match, ""
\* when there is none.
FindLocation(s) ==
  LET at == {i \in 1..Len(s) : LocationMatchAt(s, i) > 0}
  IN  IF at = {} THEN <<>>
      ELSE SubSeq(s, MinOf(at), MinOf(at) + LocationMatchAt(s, MinOf(at)) - 1)

\* func parseAuthorTitle(line string) (string, string).  ok is FALSE when the
\* function panics: splitLines[1] out of range, or [3:] past the end.
parseAuthorTitle(line) ==
  LET splitLines == Split(line, <<"(">>)
  IN  IF Len(splitLines) < 2
      THEN [ok |-> FALSE, author |-> <<>>, book |-> <<>>]
      ELSE LET bookRaw == splitLines[1]
               authorRaw == splitLines[2]
               trimmed == TrimSpace(bookRaw)
           IN  IF Len(trimmed) < 3
               THEN [ok |-> FALSE, author |-> <<>>, book |-> <<>>]
               ELSE [ok |-> TRUE,
                     author |-> Trim(authorRaw, {")"}),
                     book |-> SubSeq(trimmed, 4, Len(trimmed))]

\* func parseLocDatetime(line string) (string, string).  ok is FALSE when the
\* function panics: header[1] out of range, or [9:] past the end.
parseLocDatetime(line) ==
  LET header == Split(line, <<" ", "|", " ">>)
  IN  IF Len(header) < 2
      THEN [ok |-> FALSE, location |-> <<>>, timestamp |-> <<>>]
      ELSE LET locRaw == header[1]
               dateRaw == header[2]
           IN  IF Len(dateRaw) < 9
               THEN [ok |-> FALSE, location |-> <<>>, timestamp |-> <<>>]
               ELSE [ok |-> TRUE,
                     location |-> FindLocation(locRaw),
                     timestamp |-> SubSeq(dateRaw, 10, Len(dateRaw))]


\* const separator string = "=========="
separator == <<"=", "=", "=", "=", "=", "=", "=", "=", "=", "=">>

\* Lines the clippings file is made of: two title lines, the location and
\* date line, a line of highlight text, and the separator.
TitleLineA == <<"x", "y", "z", "A", "b", " ", "(", "P", ")">>
TitleLineB == <<"x", "y", "z", "C", "d", " ", "(", "Q", ")">>
MetaLine == <<"-", " ", "a", "t", " ", "l", "o", "c", "a", "t", "i", "o", "n", " ", "2", "-", "3", " ", "|", " ", "A", "d", "d", "e", "d", " ", "o", "n", " ", "M", "o", "n">>
TextLine == <<"t">>

KindleLines == {separator, TitleLineA, TitleLineB, MetaLine, TextLine}


\* A plausible slip of the loop: the line is appended to the text before the
\* separator check (the check is behind the append, not in front of it).
ScanLoopBody_AppendFirst(cnt, h, hs, line) ==
  IF cnt = 0
  THEN LET r == parseAuthorTitle(line)
       IN  IF r.ok
           THEN [counter |-> cnt + 1,
                 hl |-> [h EXCEPT !.author = r.author, !.book = r.book],
                 highlights |-> hs, panicked |-> FALSE]
           ELSE [counter |-> cnt, hl |-> h, highlights |-> hs, panicked |-> TRUE]
  ELSE IF cnt = 1
  THEN LET r == parseLocDatetime(line)
       IN  IF r.ok
           THEN [counter |-> cnt + 1,
                 hl |-> [h EXCEPT !.location = r.location, !.timestamp = r.timestamp],
                 highlights |-> hs, panicked |-> FALSE]
           ELSE [counter |-> cnt, hl |-> h, highlights |-> hs, panicked |-> TRUE]
  ELSE IF line = separator
  THEN [counter |-> 0, hl |-> EmptyHighlight,
        highlights |-> Append(hs, [h EXCEPT !.text = h.text \o line]),
        panicked |-> FALSE]
  ELSE [counter |-> cnt + 1,
        hl |-> [h EXCEPT !.text = h.text \o line],
        highlights |-> hs, panicked |-> FALSE]

\* A plausible slip of the loop: hl is not replaced by a new HighlightData{}
\* after it is appended.
ScanLoopBody_NoReset(cnt, h, hs, line) ==
  IF cnt = 0
  THEN LET r == parseAuthorTitle(line)
       IN  IF r.ok
           THEN [counter |-> cnt + 1,
                 hl |-> [h EXCEPT !.author = r.author, !.book = r.book],
                 highlights |-> hs, panicked |-> FALSE]
           ELSE [counter |-> cnt, hl |-> h, highlights |-> hs, panicked |-> TRUE]
  ELSE IF cnt = 1
  THEN LET r == parseLocDatetime(line)
       IN  IF r.ok
           THEN [counter |-> cnt + 1,
                 hl |-> [h EXCEPT !.location = r.location, !.timestamp = r.timestamp],
                 highlights |-> hs, panicked |-> FALSE]
           ELSE [counter |-> cnt, hl |-> h, highlights |-> hs, panicked |-> TRUE]
  ELSE IF line = separator
  THEN [counter |-> 0, hl |-> h,
        highlights |-> Append(hs, h), panicked |-> FALSE]
  ELSE [counter |-> cnt + 1,
        hl |-> [h EXCEPT !.text = h.text \o line],
        highlights |-> hs, panicked |-> FALSE]

\* A plausible slip of the loop: author and title are parsed from every line
\* that parses as a title line, not from the first line of a clipping only.
ScanLoopBody_ParseLater(cnt, h, hs, line) ==
  IF cnt = 0
  THEN LET r == parseAuthorTitle(line)
       IN  IF r.ok
           THEN [counter |-> cnt + 1,
                 hl |-> [h EXCEPT !.author = r.author, !.book = r.book],
                 highlights |-> hs, panicked |-> FALSE]
           ELSE [counter |-> cnt, hl |-> h, highlights |-> hs, panicked |-> TRUE]
  ELSE IF cnt = 1
  THEN LET r == parseLocDatetime(line)
       IN  IF r.ok
           THEN [counter |-> cnt + 1,
                 hl |-> [h EXCEPT !.location = r.location, !.timestamp = r.timestamp],
                 highlights |-> hs, panicked |-> FALSE]
           ELSE [counter |-> cnt, hl |-> h, highlights |-> hs, panicked |-> TRUE]
  ELSE IF line = separator
  THEN [counter |-> 0, hl |-> EmptyHighlight,
        highlights |-> Append(hs, h), panicked |-> FALSE]
  ELSE IF parseAuthorTitle(line).ok
  THEN [counter |-> cnt + 1,
        hl |-> [h EXCEPT !.author = parseAuthorTitle(line).author,
                         !.book = parseAuthorTitle(line).book],
        highlights |-> hs, panicked |-> FALSE]
  ELSE [counter |-> cnt + 1,
        hl |-> [h EXCEPT !.text = h.text \o line],
        highlights |-> hs, panicked |-> FALSE]

\* The body of the scan loop of main, for one line: the new counter, hl and
\* highlights, and whether a parse function panicked on the line.
ScanLoopBody(cnt, h, hs, line) ==
  IF cnt = 0
  THEN LET r == parseAuthorTitle(line)
       IN  IF r.ok
           THEN [counter |-> cnt + 1,
                 hl |-> [h EXCEPT !.author = r.author, !.book = r.book],
                 highlights |-> hs, panicked |-> FALSE]
           ELSE [counter |-> cnt, hl |-> h, highlights |-> hs, panicked |-> TRUE]
  ELSE IF cnt = 1
  THEN LET r == parseLocDatetime(line)
       IN  IF r.ok
           THEN [counter |-> cnt + 1,
                 hl |-> [h EXCEPT !.location = r.location, !.timestamp = r.timestamp],
                 highlights |-> hs, panicked |-> FALSE]
           ELSE [counter |-> cnt, hl |-> h, highlights |-> hs, panicked |-> TRUE]
  ELSE IF line = separator
  THEN [counter |-> 0, hl |-> EmptyHighlight,
        highlights |-> Append(hs, h), panicked |-> FALSE]
  ELSE [counter |-> cnt + 1,
        hl |-> [h EXCEPT !.text = h.text \o line],
        highlights |-> hs, panicked |-> FALSE]

\* The content of the book file of highlight h in the folder f, <<>> with
\* exists FALSE when there is no such file.
BookFile(f, h) ==
  LET found == {r \in f.files : r.author = h.author /\ r.book = h.book}
  IN  IF found = {} THEN [exists |-> FALSE, content |-> <<>>]
      ELSE [exists |-> TRUE, content |-> (CHOOSE r \in found : TRUE).content]

\* []byte("# "+highlight.Book+"\n## "+highlight.Author)
BookHeader(h) == <<"#", " ">> \o h.book \o <<"\n", "#", "#", " ">> \o h.author

\* The three file.WriteString calls of saveHighlight.
HighlightEntry(h) ==
  <<"\n", "\n", "#", "#", "#", " ">> \o h.timestamp
    \o <<"\n", "#", "#", "#", "#", " ">> \o Title(h.location)
    \o <<"\n", "\n">> \o h.text

\* The folder f with the book file of h holding content c.
WithBookFile(f, h, c) ==
  [root |-> TRUE,
   dirs |-> f.dirs \cup {h.author},
   files |-> {r \in f.files : ~(r.author = h.author /\ r.book = h.book)}
               \cup {[author |-> h.author, book |-> h.book, content |-> c]}]

\* A plausible slip of saveHighlight: the strings.Contains check is missing,
\* the highlight is appended on every call.
saveHighlight_AlwaysAppend(f, h) ==
  LET old == BookFile(f, h)
      fileContent == IF old.exists THEN old.content ELSE BookHeader(h)
  IN  WithBookFile(f, h, fileContent \o HighlightEntry(h))

\* A plausible slip of saveHighlight: the os.Stat check is missing, the header
\* is written over the book file on every call.
saveHighlight_Overwrite(f, h) ==
  LET fileContent == BookHeader(h)
  IN  IF Contains(fileContent, h.text)
      THEN WithBookFile(f, h, fileContent)
      ELSE WithBookFile(f, h, fileContent \o HighlightEntry(h))

\* func saveHighlight(highlight HighlightData, highlightsFolder string): the
\* folder after the call.  Creating the folders and the file succeeds.
saveHighlight(f, h) ==
  LET old == BookFile(f, h)
      fileContent == IF old.exists THEN old.content ELSE BookHeader(h)
  IN  IF Contains(fileContent, h.text)
      THEN WithBookFile(f, h, fileContent)
      ELSE WithBookFile(f, h, fileContent \o HighlightEntry(h))

\* The program is started on an empty destination; the clippings file is
\* revealed line by line as the first run scans it.
KindleInit ==
  /\ CaptionOff
  /\ StravaOff
  /\ kfile = <<>>
  /\ pos = 1
  /\ counter = 0
  /\ hl = EmptyHighlight
  /\ highlights = <<>>
  /\ kpc = "scan"
  /\ saveIdx = 1
  /\ run = 1
  /\ fs = EmptyFs

\* The lines scanner.Scan() can deliver next: the file's next line, or, while
\* the first run is still revealing the file, any line.
NextLines ==
  IF pos <= Len(kfile) THEN {kfile[pos]}
  ELSE IF run = 1 /\ Len(kfile) < MaxLines THEN KindleLines
  ELSE {}

\* One iteration of `for scanner.Scan()`.
ScanLine ==
  /\ kpc = "scan"
  /\ \E line \in NextLines :
       LET r == ScanLoopBody(counter, hl, highlights, line)
       IN  /\ kfile' = (IF pos <= Len(kfile) THEN kfile ELSE Append(kfile, line))
           /\ pos' = pos + 1
           /\ counter' = r.counter
           /\ hl' = r.hl
           /\ highlights' = r.highlights
           /\ kpc' = (IF r.panicked THEN "panic" ELSE "scan")
  /\ UNCHANGED <<saveIdx, run, fs>>
  /\ UNCHANGED <<captionVars, stravaVars>>

\* scanner.Scan() returns false at the end of the file; file.Close().
ScanEnd ==
  /\ kpc = "scan"
  /\ pos > Len(kfile)
  /\ kpc' = "save"
  /\ saveIdx' = 1
  /\ UNCHANGED <<kfile, pos, counter, hl, highlights, run, fs>>
  /\ UNCHANGED <<captionVars, stravaVars>>

\* One iteration of `for _, highlight := range highlights`.
SaveOne ==
  /\ kpc = "save"
  /\ saveIdx <= Len(highlights)
  /\ fs' = saveHighlight(fs, highlights[saveIdx])
  /\ saveIdx' = saveIdx + 1
  /\ UNCHANGED <<kfile, pos, counter, hl, highlights, kpc, run>>
  /\ UNCHANGED <<captionVars, stravaVars>>

\* main returns.
KindleExit ==
  /\ kpc = "save"
  /\ saveIdx > Len(highlights)
  /\ kpc' = "done"
  /\ UNCHANGED <<kfile, pos, counter, hl, highlights, saveIdx, run, fs>>
  /\ UNCHANGED <<captionVars, stravaVars>>

\* The program is run again on the same clippings file and destination.
RunAgain ==
  /\ kpc = "done"
  /\ run < MaxRuns
  /\ run' = run + 1
  /\ pos' = 1
  /\ counter' = 0
  /\ hl' = EmptyHighlight
  /\ highlights' = <<>>
  /\ saveIdx' = 1
  /\ kpc' = "scan"
  /\ UNCHANGED <<kfile, fs>>
  /\ UNCHANGED <<captionVars, stravaVars>>

KindleNext == ScanLine \/ ScanEnd \/ SaveOne \/ KindleExit \/ RunAgain

SpecKindle == KindleInit /\ [][KindleNext]_vars


----
\* Reading the clippings file independently of the loop.

\* The lines the current run has processed; the line a parse function
\* panicked on is not among them.
Scanned ==
  IF kpc = "panic" THEN SubSeq(kfile, 1, pos - 2) ELSE SubSeq(kfile, 1, pos - 1)

\* The separator-terminated clippings of a sequence of lines, each without
\* its separator, in file order.
RECURSIVE ClippingsOf(_)
ClippingsOf(lines) ==
  LET at == {i \in 1..Len(lines) : lines[i] = separator}
  IN  IF at = {} THEN <<>>
      ELSE <<SubSeq(lines, 1, MinOf(at) - 1)>>
             \o ClippingsOf(SubSeq(lines, MinOf(at) + 1, Len(lines)))

\* The lines after the last separator: the clipping being read.
RECURSIVE OpenClipping(_)
OpenClipping(lines) ==
  LET at == {i \in 1..Len(lines) : lines[i] = separator}
  IN  IF at = {} THEN lines
      ELSE OpenClipping(SubSeq(lines, MinOf(at) + 1, Len(lines)))

RECURSIVE Concat(_)
Concat(strs) ==
  IF Len(strs) = 0 THEN <<>> ELSE Head(strs) \o Concat(Tail(strs))

IsPrefix(a, b) == Len(a) <= Len(b) /\ SubSeq(b, 1, Len(a)) = a

\* C14 (as claimed): every line the scan loop reads sets the counter to zero
\* when it is the separator and increments it by one otherwise.
C14_CounterEveryLine ==
  [][(kpc = "scan" /\ pos' = pos + 1) =>
       (IF kfile'[pos] = separator THEN counter' = 0 ELSE counter' = counter + 1)]_vars

\* C15: the text of every parsed highlight is the concatenation of
\* consecutive lines of its clipping, none of which is the separator.
C15_NoSeparatorInText ==
  LET clips == ClippingsOf(Scanned)
  IN  /\ Len(highlights) <= Len(clips)
      /\ \A k \in 1..Len(highlights) :
           \E j \in 1..(Len(clips[k]) + 1) :
             /\ \A i \in j..Len(clips[k]) : clips[k][i] # separator
             /\ highlights[k].text = Concat(SubSeq(clips[k], j, Len(clips[k])))

\* A highlight whose text is made of two lines has been appended.
C15_Witness ==
  /\ Len(highlights) >= 1
  /\ highlights[1].text = TextLine \o TitleLineB

\* C16: the slice holds one entry per separator-terminated clipping scanned,
\* in file order, each made of its own clipping's lines only, and the working
\* highlight is empty right after a separator.
C16_OnePerClipping ==
  LET clips == ClippingsOf(Scanned)
  IN  /\ Len(highlights) = Len(clips)
      /\ \A k \in 1..Len(clips) :
           /\ Len(clips[k]) >= 2
           /\ highlights[k].author = parseAuthorTitle(clips[k][1]).author
           /\ highlights[k].book = parseAuthorTitle(clips[k][1]).book
           /\ highlights[k].location = parseLocDatetime(clips[k][2]).location
           /\ highlights[k].timestamp = parseLocDatetime(clips[k][2]).timestamp
           /\ highlights[k].text = Concat(SubSeq(clips[k], 3, Len(clips[k])))
      /\ (OpenClipping(Scanned) = <<>> => hl = EmptyHighlight)

\* Two clippings of different books, the first with text and the second
\* without, have been parsed and the run is over.
C16_Witness ==
  /\ kpc = "done"
  /\ Len(highlights) = 2
  /\ highlights[1].text = TextLine
  /\ highlights[2].text = <<>>
  /\ highlights[1].book # highlights[2].book

\* C17: the working highlight holds parseAuthorTitle of exactly the first line
\* and parseLocDatetime of exactly the second line of the clipping being
\* read, and its text is every later line, in order.
C17_LineRoles ==
  LET open == OpenClipping(Scanned)
      first == IF Len(open) >= 1 THEN parseAuthorTitle(open[1])
               ELSE [ok |-> TRUE, author |-> <<>>, book |-> <<>>]
      second == IF Len(open) >= 2 THEN parseLocDatetime(open[2])
                ELSE [ok |-> TRUE, location |-> <<>>, timestamp |-> <<>>]
  IN  /\ counter = Len(open)
      /\ first.ok /\ second.ok
      /\ hl.author = first.author
      /\ hl.book = first.book
      /\ hl.location = second.location
      /\ hl.timestamp = second.timestamp
      /\ hl.text = Concat(SubSeq(open, 3, Len(open)))

\* The clipping being read has a title-like and a date-like line after its
\* two header lines; both went to the text.
C17_Witness ==
  /\ counter = 4
  /\ hl.author = <<"P">>
  /\ hl.book = <<"A", "b">>
  /\ hl.timestamp = <<"M", "o", "n">>
  /\ hl.text = TitleLineB \o MetaLine


\* C18: a call of saveHighlight on a book file that already contains the
\* highlight's text changes nothing, and no step of a run that follows a
\* completed run on the same clippings file changes the highlights folder.
C18_NoDuplicate ==
  [][/\ (kpc = "save" /\ saveIdx' = saveIdx + 1
           /\ BookFile(fs, highlights[saveIdx]).exists
           /\ Contains(BookFile(fs, highlights[saveIdx]).content,
                       highlights[saveIdx].text))
          => fs' = fs
     /\ run >= 2 => fs' = fs]_vars

\* The second run is over and a book file holds a highlight under its header.
C18_Witness ==
  /\ run = 2
  /\ kpc = "done"
  /\ \E k \in 1..Len(highlights) :
       /\ highlights[k].text # <<>>
       /\ BookFile(fs, highlights[k]).content
            = BookHeader(highlights[k]) \o HighlightEntry(highlights[k])

\* C19: a call of saveHighlight leaves every existing book file's content as a
\* prefix of its new content; a book file that did not exist starts with the
\* "# book / ## author" header; and a highlight whose text the file does not
\* contain is appended as timestamp, location and text.
C19_AppendOnly ==
  [][(kpc = "save" /\ saveIdx' = saveIdx + 1) =>
       LET h == highlights[saveIdx]
           old == BookFile(fs, h)
           new == BookFile(fs', h)
           header == <<"#", " ">> \o h.book \o <<"\n", "#", "#", " ">> \o h.author
           base == IF old.exists THEN old.content ELSE header
       IN  /\ \A r \in fs.files :
                \E q \in fs'.files :
                  /\ q.author = r.author
                  /\ q.book = r.book
                  /\ IsPrefix(r.content, q.content)
           /\ new.exists
           /\ IsPrefix(header, new.content) \/ old.exists
           /\ new.content =
                (IF Contains(base, h.text) THEN base
                 ELSE base \o <<"\n", "\n", "#", "#", "#", " ">> \o h.timestamp
                           \o <<"\n", "#", "#", "#", "#", " ">> \o Title(h.location)
                           \o <<"\n", "\n">> \o h.text)]_vars

\* A highlight has been appended to a book file that an earlier call created.
C19_Witness ==
  /\ kpc = "save"
  /\ saveIdx = 3
  /\ highlights[1].author = highlights[2].author
  /\ highlights[1].book = highlights[2].book
  /\ highlights[2].text # <<>>
  /\ ~Contains(BookHeader(highlights[2]), highlights[2].text)
  /\ BookFile(fs, highlights[2]).content
       = BookHeader(highlights[2]) \o HighlightEntry(highlights[2])


----
(***************************************************************************)
(* The Strava downloader (the Python program of the Strava post).  A       *)
(* start_date is a datetime in UTC, written as its seconds since the epoch *)
(* and its UTC offset; an activity's id is taken to be distinct per        *)
(* activity.  The API returns the activities that start after `after`.     *)
(***************************************************************************)

\* The activities Strava can hold: runs (recorded or manually added) and
\* rides, one per start time.
Activities ==
  {[id |-> t, start_date |-> [utc |-> t, offset |-> 0], type |-> ty, manual |-> m] :
     t \in 1..MaxTs, ty \in {"Run"}, m \in BOOLEAN}
  \cup
  {[id |-> t, start_date |-> [utc |-> t, offset |-> 0], type |-> "Ride", manual |-> FALSE] :
     t \in 1..MaxTs}

RemoteSets == {S \in SUBSET Activities : \A a, b \in S : a.id = b.id => a = b}

\* The states the destination can be in before a run: missing, present
\* without the streams folder, or present with it; the files are those a
\* run writes.
DestStates ==
  {[exists |-> FALSE, streamsDir |-> FALSE, activities |-> {}, streams |-> {}]}
  \cup
  {[exists |-> TRUE, streamsDir |-> FALSE, activities |-> A, streams |-> {}] :
     A \in SUBSET (1..MaxTs)}
  \cup
  {[exists |-> TRUE, streamsDir |-> TRUE, activities |-> A,
    streams |-> {[ts |-> t, ext |-> "json"] : t \in T}] :
     A \in SUBSET (1..MaxTs), T \in SUBSET (1..MaxTs)}

\* def timestampify(d): d minus the epoch in d's own time zone, in seconds.
timestampify(d) == d.utc + d.offset

\* def check_paths(filepath): the destination afterwards.
check_paths(d) ==
  IF ~d.exists
  THEN [d EXCEPT !.exists = TRUE, !.streamsDir = TRUE]
  ELSE d

MaxOf(S) == CHOOSE x \in S : \A y \in S : y <= x

\* The activities of S ordered by start time.
RECURSIVE ByStart(_)
ByStart(S) ==
  IF S = {} THEN <<>>
  ELSE LET first == CHOOSE a \in S : \A b \in S : a.start_date.utc <= b.start_date.utc
       IN  <<first>> \o ByStart(S \ {first})

\* api_client.get_logged_in_athlete_activities(after=...)
get_logged_in_athlete_activities(after) ==
  ByStart({a \in remote : a.start_date.utc > after})

\* A slip: the type filter is left out.
RunsOnly_AnyType(acts) == acts

\* [act for act in remote_activities if act.type == "Run"]
RunsOnly(acts) == SelectSeq(acts, LAMBDA a : a.type = "Run")

\* A slip: the oldest local activity is taken instead of the youngest.
YoungestActivity_Oldest(acts, all) ==
  IF acts # {} /\ ~all THEN CHOOSE x \in acts : \A y \in acts : x <= y ELSE 0

\* A slip: the local activities are ignored and every run asks for everything.
YoungestActivity_Zero(acts, all) ==
  IF acts # {} /\ ~all THEN 0 ELSE 0

\* youngest_activity: max(local_activities) if local_activities and not all,
\* else 0.
YoungestActivity(acts, all) ==
  IF acts # {} /\ ~all THEN MaxOf(acts) ELSE 0

\* A slip: the parquet option is ignored.
StreamFile_AlwaysJson(timestamp, parquet) ==
  [ts |-> timestamp, ext |-> "json"]

\* The stream file of an activity: streams/<timestamp>_stream.parquet if
\* parquet, else streams/<timestamp>_stream.json.
StreamFile(timestamp, parquet) ==
  [ts |-> timestamp, ext |-> IF parquet THEN "parquet" ELSE "json"]

\* A slip: one of the two files is enough to skip.
SkipActivity_Either(timestamp, acts, streams) ==
  timestamp \in acts \/ timestamp \in streams

\* if timestamp in local_activities and timestamp in local_streams: continue
SkipActivity(timestamp, acts, streams) ==
  timestamp \in acts /\ timestamp \in streams

StravaInit ==
  /\ CaptionOff
  /\ KindleOff
  /\ remote \in RemoteSets
  /\ optAll \in BOOLEAN
  /\ optParquet \in BOOLEAN
  /\ dest \in DestStates
  /\ spc = "check"
  /\ srun = 1
  /\ sprev = "none"
  /\ local_activities = {}
  /\ local_streams = {}
  /\ youngest_activity = 0
  /\ activities_to_sync = <<>>
  /\ syncIdx = 1
  /\ fetched = {}
  /\ streamed = {}

\* check_paths(filepath)
CheckPaths ==
  /\ spc = "check"
  /\ dest' = check_paths(dest)
  /\ spc' = "list"
  /\ UNCHANGED <<remote, optAll, optParquet, srun, sprev, local_activities, local_streams,
                 youngest_activity, activities_to_sync, syncIdx, fetched, streamed>>
  /\ UNCHANGED <<captionVars, kindleVars>>

\* The two os.listdir calls and youngest_activity; os.listdir raises
\* FileNotFoundError when the streams folder is missing.
ListLocal ==
  /\ spc = "list"
  /\ IF dest.streamsDir
     THEN /\ local_activities' = dest.activities
          /\ local_streams' = {f.ts : f \in dest.streams}
          /\ youngest_activity' = YoungestActivity(dest.activities, optAll)
          /\ spc' = "query"
     ELSE /\ spc' = "error"
          /\ UNCHANGED <<local_activities, local_streams, youngest_activity>>
  /\ UNCHANGED <<remote, optAll, optParquet, srun, sprev, dest, activities_to_sync, syncIdx,
                 fetched, streamed>>
  /\ UNCHANGED <<captionVars, kindleVars>>

\* The activities query and the filter for runs.
QueryRemote ==
  /\ spc = "query"
  /\ activities_to_sync' = RunsOnly(get_logged_in_athlete_activities(youngest_activity))
  /\ syncIdx' = 1
  /\ spc' = "sync"
  /\ UNCHANGED <<remote, optAll, optParquet, srun, sprev, dest, local_activities, local_streams,
                 youngest_activity, fetched, streamed>>
  /\ UNCHANGED <<captionVars, kindleVars>>

\* One iteration of the sync loop up to the activity's JSON file: skip, or
\* get_activity_by_id and json.dump.
SyncActivity ==
  /\ spc = "sync"
  /\ syncIdx <= Len(activities_to_sync)
  /\ LET activity_summary == activities_to_sync[syncIdx]
         timestamp == timestampify(activity_summary.start_date)
     IN  IF SkipActivity(timestamp, local_activities, local_streams)
         THEN /\ syncIdx' = syncIdx + 1
              /\ UNCHANGED <<dest, spc, fetched>>
         ELSE /\ fetched' = fetched \cup {activity_summary.id}
              /\ dest' = [dest EXCEPT !.activities = @ \cup {timestamp}]
              /\ IF activity_summary.manual
                 THEN syncIdx' = syncIdx + 1 /\ spc' = "sync"
                 ELSE syncIdx' = syncIdx /\ spc' = "stream"
  /\ UNCHANGED <<remote, optAll, optParquet, srun, sprev, local_activities, local_streams,
                 youngest_activity, activities_to_sync, streamed>>
  /\ UNCHANGED <<captionVars, kindleVars>>

\* The rest of the iteration for an activity that is not manually added:
\* get_activity_streams and the stream file.
SyncStream ==
  /\ spc = "stream"
  /\ LET activity_summary == activities_to_sync[syncIdx]
         timestamp == timestampify(activity_summary.start_date)
     IN  /\ streamed' = streamed \cup {activity_summary.id}
         /\ dest' = [dest EXCEPT !.streams = @ \cup {StreamFile(timestamp, optParquet)}]
  /\ syncIdx' = syncIdx + 1
  /\ spc' = "sync"
  /\ UNCHANGED <<remote, optAll, optParquet, srun, sprev, local_activities, local_streams,
                 youngest_activity, activities_to_sync, fetched>>
  /\ UNCHANGED <<captionVars, kindleVars>>

\* The loop is over; main returns.
StravaExit ==
  /\ spc = "sync"
  /\ syncIdx > Len(activities_to_sync)
  /\ spc' = "done"
  /\ UNCHANGED <<remote, optAll, optParquet, srun, sprev, dest, local_activities, local_streams,
                 youngest_activity, activities_to_sync, syncIdx, fetched, streamed>>
  /\ UNCHANGED <<captionVars, kindleVars>>

\* The process is interrupted after the activity's JSON file is written and
\* before its stream file is.
Interrupt ==
  /\ spc = "stream"
  /\ spc' = "killed"
  /\ UNCHANGED <<remote, optAll, optParquet, srun, sprev, dest, local_activities,
                 local_streams, youngest_activity, activities_to_sync, syncIdx,
                 fetched, streamed>>
  /\ UNCHANGED <<captionVars, kindleVars>>

\* The downloader is started again with the same options, on the same
\* destination and the same activities at Strava.
StravaRunAgain ==
  /\ spc \in {"done", "error", "killed"}
  /\ srun < MaxRuns
  /\ srun' = srun + 1
  /\ sprev' = spc
  /\ spc' = "check"
  /\ local_activities' = {}
  /\ local_streams' = {}
  /\ youngest_activity' = 0
  /\ activities_to_sync' = <<>>
  /\ syncIdx' = 1
  /\ fetched' = {}
  /\ streamed' = {}
  /\ UNCHANGED <<remote, optAll, optParquet, dest>>
  /\ UNCHANGED <<captionVars, kindleVars>>

StravaNext ==
  \/ CheckPaths \/ ListLocal \/ QueryRemote \/ SyncActivity \/ SyncStream \/ StravaExit
  \/ Interrupt \/ StravaRunAgain

SpecStrava == StravaInit /\ [][StravaNext]_vars

\* C20 (as claimed): a completed run with all = True has fetched every remote
\* run with get_activity_by_id and written its file, whatever was at the
\* destination before.
C20_AllFetchesEveryRun ==
  (spc = "done" /\ optAll) =>
    \A a \in remote :
      a.type = "Run" =>
        /\ a.id \in fetched
        /\ timestampify(a.start_date) \in dest.activities

\* ---------------------------------------------------------------------------
\* Claims about the downloader's loop, its directories and its reruns.

\* The timestamps that have a file in streams/, as main lists them:
\* int(fn.split("_")[0]) for every file name.
LocalStreams(d) == {f.ts : f \in d.streams}

\* The activity the loop is at.
CurrentActivity == activities_to_sync[syncIdx]

\* A step that starts one iteration of the loop over activities_to_sync.
LoopStep == spc = "sync" /\ syncIdx <= Len(activities_to_sync) /\ spc' # "done"

C22_RunReachesApi ==
  /\ (spc \in {"list", "query", "sync", "stream", "done"} => dest.exists)
  /\ spc # "error"

\* C23: the activities asked of the API are those after the maximum
\* timestamp among the local activity files when all is not set and there is
\* at least one such file, and those after 0 otherwise.
C23_AfterYoungest ==
  [][ (spc = "query" /\ spc' = "sync") =>
        LET after == IF ~optAll /\ dest.activities # {}
                     THEN MaxOf(dest.activities) ELSE 0
        IN  /\ youngest_activity = after
            /\ \A a \in remote :
                 (\E i \in 1..Len(activities_to_sync') : activities_to_sync'[i] = a)
                   <=> (a.type = "Run" /\ a.start_date.utc > after) ]_vars

\* C23 witness: without all, with a local file for timestamp 1, the run at 1
\* is not asked for and the newer run at 2 is to be synced.
C23_Witness ==
  /\ spc = "sync" /\ ~optAll
  /\ local_activities = {1} /\ youngest_activity = 1
  /\ \E a \in remote : a.type = "Run" /\ a.start_date.utc = 1
  /\ Len(activities_to_sync) = 1 /\ activities_to_sync[1].start_date.utc = 2
\* C24: every file that appears at the destination is <unix start
\* timestamp>.json of a run fetched in this run; every file that appears in
\* streams/ is <timestamp>_stream.json, or .parquet when parquet is set, of a
\* fetched run that was not added manually; and when the run completes, every
\* fetched run has its activity file, every fetched run that is not manual
\* has its stream file, and no stream was asked for a manual one.
C24_FilesOfSyncedActivities ==
  [][ /\ \A t \in dest'.activities \ dest.activities :
           \E a \in remote :
             /\ a.type = "Run" /\ a.id \in fetched'
             /\ t = a.start_date.utc + a.start_date.offset
      /\ \A f \in dest'.streams \ dest.streams :
           \E a \in remote :
             /\ a.id \in fetched /\ ~a.manual
             /\ f.ts = a.start_date.utc + a.start_date.offset
             /\ f.ext = (IF optParquet THEN "parquet" ELSE "json")
      /\ (spc' = "done" =>
            \A a \in remote :
              a.id \in fetched' =>
                /\ (a.start_date.utc + a.start_date.offset) \in dest'.activities
                /\ (~a.manual =>
                      \E f \in dest'.streams :
                        /\ f.ts = a.start_date.utc + a.start_date.offset
                        /\ f.ext = (IF optParquet THEN "parquet" ELSE "json"))
                /\ (a.manual => a.id \notin streamed')) ]_vars

\* C24 witness: a completed run with parquet set that wrote the files of a
\* recorded run and of a manual run into an empty destination.
C24_Witness ==
  /\ spc = "done" /\ srun = 1 /\ optParquet
  /\ \E a, b \in remote :
       /\ a.id \in fetched /\ ~a.manual /\ b.id \in fetched /\ b.manual
       /\ dest.activities = {a.start_date.utc, b.start_date.utc}
       /\ dest.streams = {[ts |-> a.start_date.utc, ext |-> "parquet"]}

\* C25: an activity whose type is not "Run" is never fetched with
\* get_activity_by_id, never asked for its streams, and no file with its
\* timestamp is written.
C25_RunsOnly ==
  [][ \A a \in remote :
        a.type # "Run" =>
          /\ a.id \notin fetched' /\ a.id \notin streamed'
          /\ (a.start_date.utc \in dest'.activities => a.start_date.utc \in dest.activities)
          /\ (a.start_date.utc \in LocalStreams(dest') =>
                a.start_date.utc \in LocalStreams(dest)) ]_vars

\* C25 witness: a completed run with a ride and a run at Strava that fetched
\* the run and left nothing of the ride.
C25_Witness ==
  /\ spc = "done"
  /\ \E a, b \in remote :
       /\ a.type = "Ride" /\ a.start_date.utc > youngest_activity
       /\ a.start_date.utc \notin dest.activities
       /\ b.type = "Run" /\ b.id \in fetched

\* C27 (as claimed): once check_paths has returned, the destination and its
\* streams subdirectory both exist, whatever existed before.
C27_BothDirectoriesExist ==
  spc \in {"list", "query", "sync", "stream", "done", "error", "killed"} =>
    dest.exists /\ dest.streamsDir

\* C28 (as claimed): a run that follows a completed run with the same remote
\* activities and the same options calls get_activity_by_id for nothing and
\* writes no file.
C28_SecondRunIdle ==
  [][ (srun >= 2 /\ sprev = "done") => (fetched' = fetched /\ dest' = dest) ]_vars

\* C28 (amended): a run without all that follows a completed run with the
\* same remote activities and the same options calls get_activity_by_id for
\* nothing and writes no file, manual runs included.
C28_SecondRunIdleWithoutAll ==
  [][ (srun >= 2 /\ sprev = "done" /\ ~optAll) =>
        (fetched' = {} /\ streamed' = {} /\ dest' = dest) ]_vars

\* C28 witness: a second run without all has completed after a completed
\* first one, with a manual run at Strava whose activity file is at the
\* destination without a stream file.
C28_Witness ==
  /\ srun = 2 /\ sprev = "done" /\ spc = "done" /\ ~optAll
  /\ \E a \in remote :
       /\ a.type = "Run" /\ a.manual
       /\ a.start_date.utc \in dest.activities
       /\ a.start_date.utc \notin LocalStreams(dest)

\* The downloader started on a destination that holds no files yet, so that
\* every file there was written by a run of the downloader.
StravaInitFresh ==
  /\ StravaInit
  /\ dest.activities = {}
  /\ dest.streams = {}

SpecStravaFresh == StravaInitFresh /\ [][StravaNext]_vars

\* C29 (as claimed): when a run without all completes, after earlier runs
\* that may have been interrupted between an activity's file and its stream
\* file, every run at Strava that is not manual and has its activity file at
\* the destination has a stream file too.
C29_StreamsRepaired ==
  (spc = "done" /\ ~optAll) =>
    \A a \in remote :
      (a.type = "Run" /\ ~a.manual /\ a.start_date.utc \in dest.activities)
        => a.start_date.utc \in LocalStreams(dest)

====
